---------------------------- MODULE Spec2Model ----------------------------
(***************************************************************************)
(* Model of the mbed simple-car controller (src/main.cpp): five RTOS       *)
(* threads sharing global variables under two mutexes.                     *)
(*                                                                         *)
(* Each thread is a program counter over the statements of its loop; a     *)
(* step is one access to shared memory, so that the unsynchronised         *)
(* accesses (simulateCar reads ignition/accel/brakes and writes accel      *)
(* without portMutex, cruiseControl reads current_speed without            *)
(* avgSpeedMutex) interleave the way the threads can.                      *)
(*                                                                         *)
(* float values are fixed-point integers with Scale units per 1.0.         *)
(***************************************************************************)
EXTENDS Integers, Sequences, FiniteSets

\* ------------------------------------------------------------ constants

\* Resolution of the fixed-point representation of a float: 1.0 = Scale.
Scale == 1000

ENGINE_SWITCH == 8
ACCEL_SWITCH == 9
BRAKES_SWITCH == 10
CC_SWITCH == 11

MIN_SPEED == 0
MAX_SPEED == 300
LEGAL_SPEED == 142
CRUISE_SPEED == 80
\* CRUISE_BIAS 0.1
CRUISE_BIAS == Scale \div 10
\* FRICTION 0.001, kept as its reciprocal
FRICTION_DIV == 1000
\* FRICTION_BIAS 0.8
FRICTION_BIAS == (8 * Scale) \div 10

\* ------------------------------------------------------------ bounds

\* simulateCar iterations explored from an initial state
MaxCycles == 1
\* full-throttle iterations behind the initial state that is still filling
\* the queue
FillCycles == 3
\* full-throttle iterations behind the initial state at top speed
WarmCycles == 400
\* simulateCar iterations told apart while the car is parked
CountedCycles == 5

\* ------------------------------------------------------------ arithmetic

\* Division rounding toward zero, as a float-to-int conversion does.
TruncDiv(a, b) == IF a >= 0 THEN a \div b ELSE -((-a) \div b)

\* bool converted to float as if the switches were active-low.
BoolToFloatInverted(b) == IF b THEN 0 ELSE Scale

\* bool converted to float
BoolToFloat(b) == IF b THEN Scale ELSE 0

\* float converted to int on push_back into std::deque<int>
FloatToInt(x) == TruncDiv(x, Scale)

\* int converted to float
IntToFloat(n) == n * Scale

\* The value NaN of a float, which 0.0/0.0 yields: an integer no
\* computation of the model produces.
NaN == -(2^30)

\* float / float; the only division by 0.0 the program makes is 0.0/0.0
FloatDiv(x, y) == IF y = 0 THEN NaN ELSE TruncDiv(x * Scale, y)

\* x > y on floats: false when an operand is NaN
FloatGT(x, y) == IF x = NaN \/ y = NaN THEN FALSE ELSE x > y

RECURSIVE SeqSum(_)
SeqSum(s) == IF s = <<>> THEN 0 ELSE Head(s) + SeqSum(Tail(s))

\* ------------------------------------------------------------ tasks

readInputs == "readInputs"
calcAverageSpeed == "calcAverageSpeed"
displayToLCD == "displayToLCD"
cruiseControl == "cruiseControl"
simulateCar == "simulateCar"

Tasks == {readInputs, calcAverageSpeed, displayToLCD, cruiseControl, simulateCar}

\* Order in which main starts the threads.
StartOrder == <<displayToLCD, calcAverageSpeed, cruiseControl, simulateCar, readInputs>>

portMutex == "portMutex"
avgSpeedMutex == "avgSpeedMutex"
Mutexes == {portMutex, avgSpeedMutex}
Free == "free"
NoMutex == "none"

Switches == {ENGINE_SWITCH, ACCEL_SWITCH, BRAKES_SWITCH, CC_SWITCH}

\* First statement of each thread's loop.
LoopHead(t) ==
    CASE t = readInputs -> "r_lock"
      [] t = calcAverageSpeed -> "a_lock"
      [] t = displayToLCD -> "d_lock1"
      [] t = cruiseControl -> "c_lock"
      [] t = simulateCar -> "s_lock"

\* LockSite with displayToLCD taking portMutex before avgSpeedMutex.
LockSiteSwapped(p) ==
    CASE p = "r_lock" -> portMutex
      [] p = "a_lock" -> avgSpeedMutex
      [] p = "d_lock1" -> portMutex
      [] p = "d_lock2" -> avgSpeedMutex
      [] p = "c_lock" -> portMutex
      [] p = "s_lock" -> avgSpeedMutex
      [] OTHER -> NoMutex

\* LockSite with readInputs taking avgSpeedMutex in place of portMutex.
LockSiteMixedUp(p) ==
    CASE p = "r_lock" -> avgSpeedMutex
      [] p = "a_lock" -> avgSpeedMutex
      [] p = "d_lock1" -> avgSpeedMutex
      [] p = "d_lock2" -> portMutex
      [] p = "c_lock" -> portMutex
      [] p = "s_lock" -> avgSpeedMutex
      [] OTHER -> NoMutex

\* The mutex a thread at statement p is about to lock.
LockSite(p) ==
    CASE p = "r_lock" -> portMutex
      [] p = "a_lock" -> avgSpeedMutex
      [] p = "d_lock1" -> avgSpeedMutex
      [] p = "d_lock2" -> portMutex
      [] p = "c_lock" -> portMutex
      [] p = "s_lock" -> avgSpeedMutex
      [] OTHER -> NoMutex

\* The statement after the lock() at p.
AfterLock(p) ==
    CASE p = "r_lock" -> "r_ign"
      [] p = "a_lock" -> "a_sum"
      [] p = "d_lock1" -> "d_lock2"
      [] p = "d_lock2" -> "d_print"
      [] p = "c_lock" -> "c_read"
      [] p = "s_lock" -> "s_ign"
      [] OTHER -> p

\* The mutex a thread at statement p is about to unlock.
UnlockSite(p) ==
    CASE p = "r_unlock" -> portMutex
      [] p = "a_unlock" -> avgSpeedMutex
      [] p = "d_unlock1" -> avgSpeedMutex
      [] p = "d_unlock2" -> portMutex
      [] p = "c_unlock" -> portMutex
      [] p = "s_unlock" -> avgSpeedMutex
      [] OTHER -> NoMutex

\* AfterUnlock with displayToLCD's second unlock() left out.
AfterUnlockOnce(t, p) == LoopHead(t)

\* The statement after the unlock() at p; the sleep_for that ends an
\* iteration leads back to the loop head.
AfterUnlock(t, p) == IF p = "d_unlock1" THEN "d_unlock2" ELSE LoopHead(t)

\* ------------------------------------------------------------ state

VARIABLES
    pc,                  \* statement each thread is at ("unstarted" before start)
    started,             \* number of threads main has started
    mutex,               \* owner of each Mutex, or Free
    switches,            \* the positions each switch of the parallel port takes
    ignition, cruise_mode, accel, brakes,
    current_speed, average_speed, odometry,
    avg_speed_queue,
    engine_indicator, cruising_indicator, speeding_indicator,
    s_ignition, s_accel, s_brakes,   \* values simulateCar has loaded
    c_speed,             \* current_speed as cruiseControl last loaded it
    a_sum,               \* calcAverageSpeed's local sum
    recent,              \* history: the speeds the last iterations ended with
    cycles               \* completed simulateCar iterations

vars == <<pc, started, mutex, switches, ignition, cruise_mode, accel, brakes,
          current_speed, average_speed, odometry, avg_speed_queue,
          engine_indicator, cruising_indicator, speeding_indicator,
          s_ignition, s_accel, s_brakes, c_speed, a_sum, recent, cycles>>

shared == <<ignition, cruise_mode, accel, brakes, current_speed, average_speed,
            odometry, avg_speed_queue, engine_indicator, cruising_indicator,
            speeding_indicator>>
locals == <<s_ignition, s_accel, s_brakes, c_speed, a_sum>>

Holds(t, m) == mutex[m] = t

\* ------------------------------------------------------------ simulateCar arithmetic

\* current_speed += (accel-brakes), or accel-0.5*brakes with ignition off
ApplyPedals(speed, ign, a, b) ==
    IF ign THEN speed + (a - b) ELSE speed + (a - TruncDiv(b, 2))

\* current_speed -= FRICTION*current_speed
ApplyDrag(speed) == speed - TruncDiv(speed, FRICTION_DIV)

ClampMin(speed) == IF speed < IntToFloat(MIN_SPEED) THEN IntToFloat(MIN_SPEED) ELSE speed

\* ClampMax with the upper limit left out.
ClampMaxNone(speed) == speed

ClampMax(speed) == IF speed > IntToFloat(MAX_SPEED) THEN IntToFloat(MAX_SPEED) ELSE speed

\* PushSpeed with the pop_front() one entry late: if(size()>4).
PushSpeedLate(q, speed) ==
    Append(IF Len(q) > 4 THEN Tail(q) ELSE q, FloatToInt(speed))

\* if(size()>3) pop_front(); push_back(current_speed)
PushSpeed(q, speed) ==
    Append(IF Len(q) > 3 THEN Tail(q) ELSE q, FloatToInt(speed))

\* odometry with the speed added as if an iteration lasted a second.
AddOdometryPerSecond(odo, speed) == odo + speed

\* odometry += current_speed * 1.0/25.0
AddOdometry(odo, speed) == odo + TruncDiv(speed, 25)

\* ------------------------------------------------------------ cruiseControl arithmetic

CruiseUpper == IntToFloat(CRUISE_SPEED) + FRICTION_BIAS

\* (current_speed - CRUISE_SPEED)/CRUISE_SPEED + CRUISE_BIAS
CruiseBrake(speed) == TruncDiv(speed - IntToFloat(CRUISE_SPEED), CRUISE_SPEED) + CRUISE_BIAS

\* (CRUISE_SPEED - current_speed)/CRUISE_SPEED + CRUISE_BIAS
CruiseAccel(speed) == TruncDiv(IntToFloat(CRUISE_SPEED) - speed, CRUISE_SPEED) + CRUISE_BIAS

\* ------------------------------------------------------------ calcAverageSpeed arithmetic

\* Average over a fixed count of 3 readings.
AverageOfThree(sum, q) == FloatDiv(sum, IntToFloat(3))

\* sum / avg_speed_queue.size()
Average(sum, q) == FloatDiv(sum, IntToFloat(Len(q)))


\* ------------------------------------------------------------ initial states

\* The globals as initialised at lines 36-45, before main starts a thread.
ColdStart ==
    /\ pc = [t \in Tasks |-> "unstarted"]
    /\ started = 0
    /\ ignition = FALSE /\ cruise_mode = FALSE
    /\ accel = 0 /\ brakes = 0
    /\ current_speed = 0 /\ average_speed = 0 /\ odometry = 0
    /\ avg_speed_queue = <<>>
    /\ recent = <<>>
    /\ engine_indicator = FALSE /\ cruising_indicator = FALSE
    /\ speeding_indicator = FALSE
    /\ cycles = 0

\* The last QueueWindow values of current_speed at the end of an iteration,
\* oldest first, as simulateCar computed them.
QueueWindow == 4
Latest(r, speed) == Append(IF Len(r) >= QueueWindow THEN Tail(r) ELSE r, speed)

\* The part of the state an iteration of simulateCar works on.
CarStates == [speed : Int, queue : Seq(Int), odo : Int, recent : Seq(Int)]

\* One whole simulateCar iteration run without interference.
CarCycle(c, ign, a, b) ==
    LET speed == ClampMax(ClampMin(ApplyDrag(ApplyPedals(c.speed, ign, a, b))))
    IN  [speed |-> speed,
         queue |-> PushSpeed(c.queue, speed),
         odo |-> AddOdometry(c.odo, speed),
         recent |-> Latest(c.recent, speed)]

\* The car c after n more iterations with the ignition on and the
\* accelerator held.
FullThrottle[c \in CarStates, n \in Nat] ==
    IF n = 0 THEN c
    ELSE IF n = 1 THEN CarCycle(c, TRUE, BoolToFloat(TRUE), BoolToFloat(FALSE))
    ELSE FullThrottle[FullThrottle[c, n \div 2], n - (n \div 2)]

\* A state the program is in after the ignition and accelerator switches
\* have been held on for n iterations of simulateCar: every thread is
\* between two iterations, readInputs has stored the switches and
\* calcAverageSpeed has averaged the queue.
WarmStart(n) ==
    LET car == FullThrottle[[speed |-> 0, queue |-> <<>>, odo |-> 0, recent |-> <<>>], n]
        avg == Average(IntToFloat(SeqSum(car.queue)), car.queue)
    IN  /\ pc = [t \in Tasks |-> LoopHead(t)]
        /\ started = Len(StartOrder)
        /\ ignition = TRUE /\ cruise_mode = FALSE
        /\ accel = BoolToFloat(TRUE) /\ brakes = BoolToFloat(FALSE)
        /\ current_speed = car.speed
        /\ average_speed = avg
        /\ odometry = car.odo
        /\ avg_speed_queue = car.queue
        /\ recent = car.recent
        /\ engine_indicator = TRUE /\ cruising_indicator = FALSE
        /\ speeding_indicator = FloatGT(avg, IntToFloat(LEGAL_SPEED))
        /\ cycles = n

\* The pedals cruiseControl sets when it runs undisturbed at this speed.
CruisePedals(speed) ==
    IF speed > CruiseUpper THEN [accel |-> 0, brakes |-> CruiseBrake(speed)]
    ELSE IF speed < CruiseUpper THEN [accel |-> CruiseAccel(speed), brakes |-> 0]
    ELSE [accel |-> 0, brakes |-> 0]

\* The car c after n more rounds in which cruiseControl, in cruise mode
\* with the ignition on, sets the pedals and simulateCar then runs one
\* iteration.
CruiseRun[c \in CarStates, n \in Nat] ==
    IF n = 0 THEN c
    ELSE IF n = 1 THEN CarCycle(c, TRUE, CruisePedals(c.speed).accel, CruisePedals(c.speed).brakes)
    ELSE CruiseRun[CruiseRun[c, n \div 2], n - (n \div 2)]

\* A state the program is in after the ignition and cruise switches have
\* been held on for n rounds (n > 0) from rest: every thread is between two
\* iterations and the pedals are those of cruiseControl's last iteration.
CruiseStart(n) ==
    LET before == CruiseRun[[speed |-> 0, queue |-> <<>>, odo |-> 0, recent |-> <<>>], n - 1]
        car == CruiseRun[before, 1]
        avg == Average(IntToFloat(SeqSum(car.queue)), car.queue)
    IN  /\ pc = [t \in Tasks |-> LoopHead(t)]
        /\ started = Len(StartOrder)
        /\ ignition = TRUE /\ cruise_mode = TRUE
        /\ accel = CruisePedals(before.speed).accel
        /\ brakes = CruisePedals(before.speed).brakes
        /\ current_speed = car.speed
        /\ average_speed = avg
        /\ odometry = car.odo
        /\ avg_speed_queue = car.queue
        /\ recent = car.recent
        /\ engine_indicator = TRUE /\ cruising_indicator = TRUE
        /\ speeding_indicator = FloatGT(avg, IntToFloat(LEGAL_SPEED))
        /\ cycles = n

\* The driver operates every switch at will.
FreeSwitches == [s \in Switches |-> BOOLEAN]
\* The driver holds every switch off.
HeldOff == [s \in Switches |-> {FALSE}]
\* The driver holds the brake and cruise switches on and the ignition and
\* accelerator switches off.
BrakeHeld ==
    [s \in Switches |-> IF s \in {BRAKES_SWITCH, CC_SWITCH} THEN {TRUE} ELSE {FALSE}]
\* The driver holds the ignition and cruise switches on and operates the
\* pedal switches at will.
CruiseHeld ==
    [s \in Switches |-> IF s \in {ENGINE_SWITCH, CC_SWITCH} THEN {TRUE} ELSE BOOLEAN]

\* The driver holds the cruise switch on and operates the others at will.
CruiseSwitchHeld ==
    [s \in Switches |-> IF s = CC_SWITCH THEN {TRUE} ELSE BOOLEAN]

\* The threads' registers and the mutexes before any statement has run.
Idle ==
    /\ mutex = [m \in Mutexes |-> Free]
    /\ s_ignition = FALSE /\ s_accel = 0 /\ s_brakes = 0
    /\ c_speed = 0 /\ a_sum = 0

Init ==
    /\ ColdStart \/ WarmStart(FillCycles) \/ WarmStart(WarmCycles)
    /\ switches = FreeSwitches
    /\ Idle

\* The initial states with switches the driver holds for good.
FairInit ==
    /\ \/ ColdStart /\ switches \in {HeldOff, BrakeHeld}
       \/ CruiseStart(WarmCycles) /\ switches = CruiseHeld
    /\ Idle

\* The initial states with a switch the driver holds.
HeldInit ==
    \/ FairInit
    \/ ColdStart /\ switches = CruiseSwitchHeld /\ Idle

\* ------------------------------------------------------------ main

\* thread.start(f): main starts the next thread of StartOrder.
StartThread ==
    /\ started < Len(StartOrder)
    /\ started' = started + 1
    /\ pc' = [pc EXCEPT ![StartOrder[started + 1]] = LoopHead(StartOrder[started + 1])]
    /\ UNCHANGED <<mutex, switches, shared, locals, recent, cycles>>

\* ------------------------------------------------------------ environment

\* par_port->read_bit(s): the values the bit can show. switches[s] is the
\* set of positions the driver puts switch s in: both for a switch the
\* driver operates at will, one for a switch that is held.
read_bit(s) == switches[s]

\* ------------------------------------------------------------ mutexes

\* The ignition and accelerator switches are held off: from a cold start
\* the car cannot leave rest.
Parked == switches[ENGINE_SWITCH] = {FALSE} /\ switches[ACCEL_SWITCH] = {FALSE}

\* The iteration count as the model keeps it: exact, but for a parked car
\* no further than CountedCycles.
Counted(n) == IF Parked /\ n > CountedCycles THEN CountedCycles ELSE n

\* The iterations of simulateCar explored from the initial state: without
\* limit for a parked car, whose states are finitely many.
Horizon ==
    IF Parked THEN CountedCycles + 1
    ELSE IF cycles >= WarmCycles THEN WarmCycles + MaxCycles
    ELSE IF cycles >= FillCycles THEN FillCycles + MaxCycles
    ELSE MaxCycles

\* m.lock(): a thread at a lock statement takes the mutex when it is free.
Lock(t) ==
    /\ LockSite(pc[t]) # NoMutex
    /\ mutex[LockSite(pc[t])] = Free
    /\ t = simulateCar => cycles < Horizon
    /\ mutex' = [mutex EXCEPT ![LockSite(pc[t])] = t]
    /\ pc' = [pc EXCEPT ![t] = AfterLock(pc[t])]
    /\ UNCHANGED <<started, switches, shared, locals, recent, cycles>>

\* m.unlock(), and the sleep_for after an iteration's last unlock.
Unlock(t) ==
    /\ UnlockSite(pc[t]) # NoMutex
    /\ mutex' = [mutex EXCEPT ![UnlockSite(pc[t])] = Free]
    /\ pc' = [pc EXCEPT ![t] = AfterUnlock(t, pc[t])]
    /\ UNCHANGED <<started, switches, shared, locals, recent, cycles>>

\* ------------------------------------------------------------ readInputs

\* ignition = read_bit(ENGINE_SWITCH); engine_indicator = ignition;
\* if(!cruise_mode)
ReadIgnition ==
    /\ pc[readInputs] = "r_ign"
    /\ ignition' \in read_bit(ENGINE_SWITCH)
    /\ engine_indicator' = ignition'
    /\ pc' = [pc EXCEPT ![readInputs] = IF ~cruise_mode THEN "r_accel" ELSE "r_unlock"]
    /\ UNCHANGED <<started, mutex, switches, cruise_mode, accel, brakes, current_speed,
                   average_speed, odometry, avg_speed_queue, cruising_indicator,
                   speeding_indicator, locals, recent, cycles>>

\* accel = read_bit(ACCEL_SWITCH)
ReadAccel ==
    /\ pc[readInputs] = "r_accel"
    /\ \E bit \in read_bit(ACCEL_SWITCH) : accel' = BoolToFloat(bit)
    /\ pc' = [pc EXCEPT ![readInputs] = "r_brakes"]
    /\ UNCHANGED <<started, mutex, switches, ignition, cruise_mode, brakes, current_speed,
                   average_speed, odometry, avg_speed_queue, engine_indicator,
                   cruising_indicator, speeding_indicator, locals, recent, cycles>>

\* brakes = read_bit(BRAKES_SWITCH)
ReadBrakes ==
    /\ pc[readInputs] = "r_brakes"
    /\ \E bit \in read_bit(BRAKES_SWITCH) : brakes' = BoolToFloat(bit)
    /\ pc' = [pc EXCEPT ![readInputs] = "r_unlock"]
    /\ UNCHANGED <<started, mutex, switches, ignition, cruise_mode, accel, current_speed,
                   average_speed, odometry, avg_speed_queue, engine_indicator,
                   cruising_indicator, speeding_indicator, locals, recent, cycles>>

\* ------------------------------------------------------------ calcAverageSpeed

\* float sum(0); for(it ...) sum += *it;
SumQueue ==
    /\ pc[calcAverageSpeed] = "a_sum"
    /\ a_sum' = IntToFloat(SeqSum(avg_speed_queue))
    /\ pc' = [pc EXCEPT ![calcAverageSpeed] = "a_div"]
    /\ UNCHANGED <<started, mutex, switches, shared, s_ignition, s_accel, s_brakes,
                   c_speed, recent, cycles>>

\* average_speed = sum/avg_speed_queue.size();
\* speeding_indicator = (average_speed > LEGAL_SPEED);
StoreAverage ==
    /\ pc[calcAverageSpeed] = "a_div"
    /\ average_speed' = Average(a_sum, avg_speed_queue)
    /\ speeding_indicator' = FloatGT(average_speed', IntToFloat(LEGAL_SPEED))
    /\ a_sum' = 0
    /\ pc' = [pc EXCEPT ![calcAverageSpeed] = "a_unlock"]
    /\ UNCHANGED <<started, mutex, switches, ignition, cruise_mode, accel, brakes,
                   current_speed, odometry, avg_speed_queue, engine_indicator,
                   cruising_indicator, s_ignition, s_accel, s_brakes, c_speed, recent, cycles>>

\* ------------------------------------------------------------ displayToLCD

\* lcd->locate; lcd->printf(average_speed); lcd->locate; lcd->printf(odometry)
PrintLCD ==
    /\ pc[displayToLCD] = "d_print"
    /\ pc' = [pc EXCEPT ![displayToLCD] = "d_unlock1"]
    /\ UNCHANGED <<started, mutex, switches, shared, locals, recent, cycles>>

\* ------------------------------------------------------------ cruiseControl

\* ReadCruise with the indicator following the switch alone:
\* cruising_indicator = cruise_mode.
ReadCruiseLamp ==
    /\ pc[cruiseControl] = "c_read"
    /\ cruise_mode' \in read_bit(CC_SWITCH)
    /\ cruising_indicator' = cruise_mode'
    /\ pc' = [pc EXCEPT ![cruiseControl] =
                IF cruise_mode' /\ ignition THEN "c_above" ELSE "c_unlock"]
    /\ UNCHANGED <<started, mutex, switches, ignition, accel, brakes, current_speed,
                   average_speed, odometry, avg_speed_queue, engine_indicator,
                   speeding_indicator, locals, recent, cycles>>

\* cruise_mode = read_bit(CC_SWITCH);
\* cruising_indicator = ignition ? cruise_mode : 0;
\* if(cruise_mode && ignition)
ReadCruise ==
    /\ pc[cruiseControl] = "c_read"
    /\ cruise_mode' \in read_bit(CC_SWITCH)
    /\ cruising_indicator' = IF ignition THEN cruise_mode' ELSE FALSE
    /\ pc' = [pc EXCEPT ![cruiseControl] =
                IF cruise_mode' /\ ignition THEN "c_above" ELSE "c_unlock"]
    /\ UNCHANGED <<started, mutex, switches, ignition, accel, brakes, current_speed,
                   average_speed, odometry, avg_speed_queue, engine_indicator,
                   speeding_indicator, locals, recent, cycles>>

\* if(current_speed>CRUISE_SPEED + FRICTION_BIAS): loads current_speed
\* (avgSpeedMutex is not held)
CompareAbove ==
    /\ pc[cruiseControl] = "c_above"
    /\ c_speed' = current_speed
    /\ pc' = [pc EXCEPT ![cruiseControl] =
                IF c_speed' > CruiseUpper THEN "c_hi_accel" ELSE "c_below"]
    /\ UNCHANGED <<started, mutex, switches, shared, s_ignition, s_accel, s_brakes,
                   a_sum, recent, cycles>>

\* else if(current_speed<CRUISE_SPEED + FRICTION_BIAS): loads current_speed again
CompareBelow ==
    /\ pc[cruiseControl] = "c_below"
    /\ c_speed' = current_speed
    /\ pc' = [pc EXCEPT ![cruiseControl] =
                IF c_speed' < CruiseUpper THEN "c_lo_accel" ELSE "c_eq_accel"]
    /\ UNCHANGED <<started, mutex, switches, shared, s_ignition, s_accel, s_brakes,
                   a_sum, recent, cycles>>

\* The first statement of the branch taken: accel = 0 (above, equal) or
\* accel = (CRUISE_SPEED - current_speed)/CRUISE_SPEED + CRUISE_BIAS (below),
\* which loads current_speed once more.
CruiseSetAccel ==
    /\ pc[cruiseControl] \in {"c_hi_accel", "c_lo_accel", "c_eq_accel"}
    /\ accel' = IF pc[cruiseControl] = "c_lo_accel" THEN CruiseAccel(current_speed) ELSE 0
    /\ pc' = [pc EXCEPT ![cruiseControl] =
                CASE pc[cruiseControl] = "c_hi_accel" -> "c_hi_brakes"
                  [] pc[cruiseControl] = "c_lo_accel" -> "c_lo_brakes"
                  [] OTHER -> "c_eq_brakes"]
    /\ UNCHANGED <<started, mutex, switches, ignition, cruise_mode, brakes, current_speed,
                   average_speed, odometry, avg_speed_queue, engine_indicator,
                   cruising_indicator, speeding_indicator, locals, recent, cycles>>

\* The second statement of the branch taken: brakes =
\* (current_speed - CRUISE_SPEED)/CRUISE_SPEED + CRUISE_BIAS (above), which
\* loads current_speed once more, or brakes = 0 (below, equal).
CruiseSetBrakes ==
    /\ pc[cruiseControl] \in {"c_hi_brakes", "c_lo_brakes", "c_eq_brakes"}
    /\ brakes' = IF pc[cruiseControl] = "c_hi_brakes" THEN CruiseBrake(current_speed) ELSE 0
    /\ c_speed' = 0
    /\ pc' = [pc EXCEPT ![cruiseControl] = "c_unlock"]
    /\ UNCHANGED <<started, mutex, switches, ignition, cruise_mode, accel, current_speed,
                   average_speed, odometry, avg_speed_queue, engine_indicator,
                   cruising_indicator, speeding_indicator, s_ignition, s_accel, s_brakes,
                   a_sum, recent, cycles>>

\* ------------------------------------------------------------ simulateCar

\* if(ignition): loads ignition (portMutex is not held)
TestIgnition ==
    /\ pc[simulateCar] = "s_ign"
    /\ s_ignition' = ignition
    /\ pc' = [pc EXCEPT ![simulateCar] = IF ignition THEN "s_load" ELSE "s_clear"]
    /\ UNCHANGED <<started, mutex, switches, shared, s_accel, s_brakes, c_speed, a_sum,
                   recent, cycles>>

\* accel = 0 (ignition off; portMutex is not held)
ClearAccel ==
    /\ pc[simulateCar] = "s_clear"
    /\ accel' = 0
    /\ pc' = [pc EXCEPT ![simulateCar] = "s_load"]
    /\ UNCHANGED <<started, mutex, switches, ignition, cruise_mode, brakes, current_speed,
                   average_speed, odometry, avg_speed_queue, engine_indicator,
                   cruising_indicator, speeding_indicator, locals, recent, cycles>>

\* The values a load of accel can give: the variable, or with the ignition
\* off also the 0 just stored to it (the compiler may forward the store).
LoadedAccel == IF s_ignition THEN {accel} ELSE {accel, 0}

\* Load of accel in (accel-brakes) or accel-0.5*brakes; the two operands
\* are loaded in either order.
LoadAccel ==
    /\ pc[simulateCar] \in {"s_load", "s_load_accel"}
    /\ \E a \in LoadedAccel : s_accel' = a
    /\ pc' = [pc EXCEPT ![simulateCar] =
                IF pc[simulateCar] = "s_load" THEN "s_load_brakes" ELSE "s_update"]
    /\ UNCHANGED <<started, mutex, switches, shared, s_ignition, s_brakes, c_speed, a_sum,
                   recent, cycles>>

\* Load of brakes in (accel-brakes) or accel-0.5*brakes.
LoadBrakes ==
    /\ pc[simulateCar] \in {"s_load", "s_load_brakes"}
    /\ s_brakes' = brakes
    /\ pc' = [pc EXCEPT ![simulateCar] =
                IF pc[simulateCar] = "s_load" THEN "s_load_accel" ELSE "s_update"]
    /\ UNCHANGED <<started, mutex, switches, shared, s_ignition, s_accel, c_speed, a_sum,
                   recent, cycles>>

\* current_speed += ...: the store
UpdateSpeed ==
    /\ pc[simulateCar] = "s_update"
    /\ current_speed' = ApplyPedals(current_speed, s_ignition, s_accel, s_brakes)
    /\ pc' = [pc EXCEPT ![simulateCar] = "s_drag"]
    /\ UNCHANGED <<started, mutex, switches, ignition, cruise_mode, accel, brakes,
                   average_speed, odometry, avg_speed_queue, engine_indicator,
                   cruising_indicator, speeding_indicator, locals, recent, cycles>>

\* current_speed -= FRICTION*current_speed
Drag ==
    /\ pc[simulateCar] = "s_drag"
    /\ current_speed' = ApplyDrag(current_speed)
    /\ pc' = [pc EXCEPT ![simulateCar] = "s_min"]
    /\ UNCHANGED <<started, mutex, switches, ignition, cruise_mode, accel, brakes,
                   average_speed, odometry, avg_speed_queue, engine_indicator,
                   cruising_indicator, speeding_indicator, locals, recent, cycles>>

\* if(current_speed<MIN_SPEED) current_speed = MIN_SPEED
LimitMin ==
    /\ pc[simulateCar] = "s_min"
    /\ current_speed' = ClampMin(current_speed)
    /\ pc' = [pc EXCEPT ![simulateCar] = "s_max"]
    /\ UNCHANGED <<started, mutex, switches, ignition, cruise_mode, accel, brakes,
                   average_speed, odometry, avg_speed_queue, engine_indicator,
                   cruising_indicator, speeding_indicator, locals, recent, cycles>>

\* if(current_speed>MAX_SPEED) current_speed = MAX_SPEED
LimitMax ==
    /\ pc[simulateCar] = "s_max"
    /\ current_speed' = ClampMax(current_speed)
    /\ pc' = [pc EXCEPT ![simulateCar] = "s_push"]
    /\ UNCHANGED <<started, mutex, switches, ignition, cruise_mode, accel, brakes,
                   average_speed, odometry, avg_speed_queue, engine_indicator,
                   cruising_indicator, speeding_indicator, locals, recent, cycles>>

\* if(size()>3) pop_front(); push_back(current_speed);
\* odometry += current_speed * 1.0/25.0
RecordSpeed ==
    /\ pc[simulateCar] = "s_push"
    /\ avg_speed_queue' = PushSpeed(avg_speed_queue, current_speed)
    /\ odometry' = AddOdometry(odometry, current_speed)
    /\ s_ignition' = FALSE /\ s_accel' = 0 /\ s_brakes' = 0
    /\ recent' = Latest(recent, current_speed)
    /\ cycles' = Counted(cycles + 1)
    /\ pc' = [pc EXCEPT ![simulateCar] = "s_unlock"]
    /\ UNCHANGED <<started, mutex, switches, ignition, cruise_mode, accel, brakes,
                   current_speed, average_speed, engine_indicator, cruising_indicator,
                   speeding_indicator, c_speed, a_sum>>

\* ------------------------------------------------------------ specification

Next ==
    \/ StartThread
    \/ \E t \in Tasks : Lock(t)
    \/ \E t \in Tasks : Unlock(t)
    \/ ReadIgnition \/ ReadAccel \/ ReadBrakes
    \/ SumQueue \/ StoreAverage
    \/ PrintLCD
    \/ ReadCruise \/ CompareAbove \/ CompareBelow \/ CruiseSetAccel \/ CruiseSetBrakes
    \/ TestIgnition \/ ClearAccel \/ LoadAccel \/ LoadBrakes
    \/ UpdateSpeed \/ Drag \/ LimitMin \/ LimitMax \/ RecordSpeed

Spec == Init /\ [][Next]_vars

\* The program with held switches.
HeldSpec == HeldInit /\ [][Next]_vars

\* The statements of thread t other than lock().
Step(t) ==
    \/ Unlock(t)
    \/ t = readInputs /\ (ReadIgnition \/ ReadAccel \/ ReadBrakes)
    \/ t = calcAverageSpeed /\ (SumQueue \/ StoreAverage)
    \/ t = displayToLCD /\ PrintLCD
    \/ t = cruiseControl /\ (ReadCruise \/ CompareAbove \/ CompareBelow
                              \/ CruiseSetAccel \/ CruiseSetBrakes)
    \/ t = simulateCar /\ (TestIgnition \/ ClearAccel \/ LoadAccel \/ LoadBrakes
                            \/ UpdateSpeed \/ Drag \/ LimitMin \/ LimitMax \/ RecordSpeed)

\* Fairness with a lock() that can be passed over at every release.
FairnessWithoutHandOver ==
    /\ WF_vars(StartThread)
    /\ \A t \in Tasks : WF_vars(Step(t)) /\ WF_vars(Lock(t))

\* The RTOS scheduler: main gets to start every thread, every thread that
\* can run a statement gets to run it (the threads have one priority and
\* sleep after each iteration), and a thread waiting at a lock() gets the
\* mutex after finitely many releases (waiters are queued).
Fairness ==
    /\ WF_vars(StartThread)
    /\ \A t \in Tasks : WF_vars(Step(t)) /\ SF_vars(Lock(t))

\* The program with switches held for good under the scheduler's fairness.
FairSpec == FairInit /\ [][Next]_vars /\ Fairness

\* ------------------------------------------------------------ lock order

\* Thread t is at a lock() of a mutex another thread, or t itself, owns.
Blocked(t) == LockSite(pc[t]) # NoMutex /\ mutex[LockSite(pc[t])] # Free

RECURSIVE BlockedChain(_, _)
BlockedChain(t, n) ==
    Blocked(t) /\ (n = 0 \/ BlockedChain(mutex[LockSite(pc[t])], n - 1))

\* C2: the threads never deadlock: there is no set of threads each of
\* which is blocked at a lock() of a mutex owned by a thread of the set,
\* that is, no chain of blocked threads, each blocked on a mutex the next
\* owns, that is longer than the number of threads.
C2_NoDeadlock == \A t \in Tasks : ~BlockedChain(t, Cardinality(Tasks))

\* displayToLCD owns avgSpeedMutex and is blocked at its lock() of
\* portMutex, while another thread is blocked at a lock() of avgSpeedMutex.
C2_Witness ==
    /\ Holds(displayToLCD, avgSpeedMutex)
    /\ pc[displayToLCD] = "d_lock2" /\ Blocked(displayToLCD)
    /\ \E t \in Tasks \ {displayToLCD} : Blocked(t) /\ LockSite(pc[t]) = avgSpeedMutex

\* ------------------------------------------------------------ speed limits

InLimits(speed) == IntToFloat(MIN_SPEED) <= speed /\ speed <= IntToFloat(MAX_SPEED)

\* C3: when simulateCar ends an iteration (it is at the unlock() of
\* avgSpeedMutex), MIN_SPEED <= current_speed <= MAX_SPEED.
C3_SpeedInLimits == pc[simulateCar] = "s_unlock" => InLimits(current_speed)

\* An iteration ends at MAX_SPEED, which the iteration had exceeded: it
\* started at top speed with the accelerator applied.
C3_Witness ==
    /\ pc[simulateCar] = "s_unlock"
    /\ cycles > WarmCycles
    /\ current_speed = IntToFloat(MAX_SPEED)

\* C4 as stated: every load of current_speed by cruiseControl (the two
\* comparisons and the two proportional terms) finds it within
\* [MIN_SPEED, MAX_SPEED].
C4_CruiseReadsInLimits ==
    pc[cruiseControl] \in {"c_above", "c_below", "c_lo_accel", "c_hi_brakes"}
        => InLimits(current_speed)

\* ------------------------------------------------------------ pedal commands

\* C5 as stated: a step that changes accel or brakes is a step of
\* readInputs while cruise_mode is false or of cruiseControl while
\* cruise_mode is true, and that thread owns portMutex.
C5_OneWriterUnderLock ==
    [][(accel' # accel \/ brakes' # brakes) =>
         \E t \in {readInputs, cruiseControl} :
            /\ pc'[t] # pc[t]
            /\ Holds(t, portMutex)
            /\ cruise_mode = (t = cruiseControl)]_vars

\* C6 as stated: in an iteration of simulateCar that found ignition false,
\* the store to current_speed before the drag subtracts half the brake
\* command and adds nothing for the accelerator, so it does not raise
\* current_speed.
C6_IgnitionOffOnlyBrakes ==
    [][(pc[simulateCar] = "s_update" /\ pc'[simulateCar] = "s_drag" /\ ~s_ignition) =>
         /\ current_speed' = current_speed - TruncDiv(s_brakes, 2)
         /\ current_speed' <= current_speed]_vars

\* ------------------------------------------------------------ speed history

\* C7 as stated: when calcAverageSpeed ends an iteration made on an empty
\* queue, average_speed is 0 and the speeding indicator is off.
C7_EmptyQueueAverageZero ==
    (pc[calcAverageSpeed] = "a_unlock" /\ avg_speed_queue = <<>>)
        => (average_speed = 0 /\ ~speeding_indicator)

C9_QueueHoldsSpeeds ==
    cycles >= 4 =>
        /\ Len(avg_speed_queue) = Len(recent)
        /\ \A i \in 1..Len(recent) : IntToFloat(avg_speed_queue[i]) = recent[i]

C11_OdometryAdvances ==
    [][/\ odometry' >= odometry
       /\ odometry' # odometry =>
            pc[simulateCar] = "s_push" /\ pc'[simulateCar] = "s_unlock"
       /\ pc[simulateCar] = "s_push" /\ pc'[simulateCar] = "s_unlock" =>
            /\ InLimits(current_speed')
            /\ odometry' = odometry + TruncDiv(current_speed', 25)]_vars

\* simulateCar has ended an iteration of a moving car and added to odometry.
C11_Witness ==
    /\ pc[simulateCar] = "s_unlock"
    /\ cycles = FillCycles + 1
    /\ current_speed > 0
    /\ odometry > TruncDiv(current_speed, 25)

\* ------------------------------------------------------------ rest

\* C12: with every switch held off from the cold start, the car is at rest
\* with both pedals released in every state, so at the end of every
\* iteration of simulateCar current_speed is 0, however the threads
\* interleave and however many iterations have run.
C12_StaysAtRest ==
    switches = HeldOff =>
        /\ accel = 0 /\ brakes = 0
        /\ pc[simulateCar] \in {"s_push", "s_unlock"} => current_speed = 0

\* With every switch held off simulateCar ends an iteration after
\* CountedCycles or more, while readInputs has just stored the switches.
C12_Witness ==
    /\ switches = HeldOff
    /\ pc[simulateCar] = "s_unlock"
    /\ cycles = CountedCycles
    /\ pc[readInputs] = "r_unlock"

\* ------------------------------------------------------------ cruise hold

\* speed is within FRICTION_BIAS of CRUISE_SPEED.
InBand(speed) ==
    /\ IntToFloat(CRUISE_SPEED) - FRICTION_BIAS <= speed
    /\ speed <= IntToFloat(CRUISE_SPEED) + FRICTION_BIAS

\* C13: with the ignition and cruise switches held on from rest, once
\* current_speed is within 0.8 of 80 at the end of an iteration of
\* simulateCar it stays there: it is within 0.8 of 80 at the end of the
\* next iteration too.
C13_HoldsCruiseSpeed ==
    [][/\ switches = CruiseHeld
       /\ pc[simulateCar] = "s_push" /\ pc'[simulateCar] = "s_unlock"
       /\ recent # <<>> /\ InBand(recent[Len(recent)])
       => InBand(current_speed')]_vars

\* ------------------------------------------------------------ cruise mode

\* cruiseControl is at a statement of the branch that writes the pedals.
InCruiseBranch ==
    pc[cruiseControl] \in {"c_above", "c_below", "c_hi_accel", "c_hi_brakes",
                           "c_lo_accel", "c_lo_brakes", "c_eq_accel", "c_eq_brakes"}

\* C14: at the end of an iteration of cruiseControl cruise_mode is a value
\* the cruise switch showed, and cruising_indicator is ignition AND
\* cruise_mode for the ignition stored at that moment; cruiseControl is in
\* the branch that writes the pedals only when cruise_mode and ignition
\* are both true.
C14_CruiseModeAndLamp ==
    /\ pc[cruiseControl] = "c_unlock" =>
          /\ cruise_mode \in switches[CC_SWITCH]
          /\ cruising_indicator = (ignition /\ cruise_mode)
    /\ InCruiseBranch => cruise_mode /\ ignition

\* cruiseControl ends an iteration in which the cruise switch was on and
\* the ignition off: the indicator is dark and the pedals were not set.
C14_Witness ==
    /\ pc[cruiseControl] = "c_unlock"
    /\ cruise_mode /\ ~ignition /\ ~cruising_indicator
    /\ switches = CruiseSwitchHeld

\* ------------------------------------------------------------ lock coverage

\* simulateCar is at a statement that reads ignition, accel or brakes or
\* writes accel.
AtPedalAccess ==
    pc[simulateCar] \in {"s_ign", "s_clear", "s_load", "s_load_accel", "s_load_brakes"}

\* C15: simulateCar reads ignition, accel and brakes, and writes accel,
\* only while it owns portMutex as well as avgSpeedMutex.
C15_PedalsUnderPortMutex ==
    AtPedalAccess => Holds(simulateCar, portMutex) /\ Holds(simulateCar, avgSpeedMutex)

\* cruiseControl is at a statement that reads current_speed.
AtSpeedAccess ==
    pc[cruiseControl] \in {"c_above", "c_below", "c_lo_accel", "c_hi_brakes"}

\* C16: cruiseControl reads current_speed only while it owns
\* avgSpeedMutex, and the value it computes a pedal from is the value it
\* tested in the comparison.
C16_SpeedUnderAvgMutex ==
    /\ AtSpeedAccess => Holds(cruiseControl, avgSpeedMutex)
    /\ pc[cruiseControl] \in {"c_lo_accel", "c_hi_brakes"} => current_speed = c_speed

\* Thread t is at a statement that uses the port expander: a read_bit of
\* readInputs or cruiseControl, or the LCD output of displayToLCD.
AtPortAccess(t) ==
    \/ t = readInputs /\ pc[t] \in {"r_ign", "r_accel", "r_brakes"}
    \/ t = cruiseControl /\ pc[t] = "c_read"
    \/ t = displayToLCD /\ pc[t] = "d_print"

\* C18: a thread uses the port expander (switch inputs and LCD) only while
\* it owns portMutex, and no two threads use it at the same time.
C18_PortUnderMutex ==
    /\ \A t \in Tasks : AtPortAccess(t) => Holds(t, portMutex)
    /\ \A t, u \in Tasks : AtPortAccess(t) /\ AtPortAccess(u) => t = u

\* displayToLCD writes to the LCD while readInputs and cruiseControl wait
\* for portMutex.
C18_Witness ==
    /\ pc[displayToLCD] = "d_print"
    /\ pc[readInputs] = "r_lock"
    /\ pc[cruiseControl] = "c_lock"

\* ------------------------------------------------------------ braking

\* C17: with the ignition switch held off and the brake switch held on,
\* brakes eventually becomes 1 and current_speed eventually is 0, whatever
\* the accelerator and cruise switches do.
C17_BrakeStopsCar ==
    switches[ENGINE_SWITCH] = {FALSE} /\ switches[BRAKES_SWITCH] = {TRUE} =>
        /\ <>(brakes = BoolToFloat(TRUE))
        /\ <>(pc[simulateCar] = "s_unlock" /\ current_speed = 0)

\* ------------------------------------------------------------ cruise indicator

\* C19 as stated: whenever no thread owns portMutex, a lit
\* cruising_indicator implies that ignition is true.
C19_LampImpliesIgnition ==
    mutex[portMutex] = Free => (cruising_indicator => ignition)

\* C19 amended: from the statement of cruiseControl that sets
\* cruising_indicator to the unlock that ends the iteration, a lit
\* cruising_indicator implies that ignition is true.
C19_LampImpliesIgnitionAtCycleEnd ==
    InCruiseBranch \/ pc[cruiseControl] = "c_unlock" => (cruising_indicator => ignition)

\* cruiseControl has lit the indicator and is about to end its iteration.
C19_Witness ==
    /\ pc[cruiseControl] = "c_unlock"
    /\ cruising_indicator /\ ignition
    /\ cycles > WarmCycles

\* ------------------------------------------------------------ progress

\* Thread t ends an iteration: its last unlock() and the sleep_for.
CycleDone(t) == Unlock(t) /\ pc'[t] = LoopHead(t)

\* C20: under the scheduler's fairness no thread is starved: every thread
\* ends an iteration infinitely often (simulateCar in the runs in which its
\* iterations are explored without limit).
C20_NoStarvation ==
    \A t \in Tasks : (t = simulateCar => Parked) => []<><<CycleDone(t)>>_vars

\* displayToLCD owns both mutexes and the four other threads wait at their
\* lock(), after simulateCar has run CountedCycles iterations or more.
C20_Witness ==
    /\ Parked /\ cycles = CountedCycles
    /\ Holds(displayToLCD, avgSpeedMutex) /\ Holds(displayToLCD, portMutex)
    /\ \A t \in Tasks \ {displayToLCD} : Blocked(t)

=============================================================================
